---- MODULE Spec2Model ----
(***************************************************************************)
(* A model of egui-modal-spinner (src/src/lib.rs): the ModalSpinner value, *)
(* its builder setters, open / close / update, and the part of the host    *)
(* egui::Context that update reads and writes (the frame's screen          *)
(* rectangle, the window-fill style, the keyed areas, the layer stacking   *)
(* order and the shapes laid out in the frame).                            *)
(***************************************************************************)
EXTENDS Integers, Sequences, FiniteSets, TLC

VARIABLES
    spinner,      \* the ModalSpinner value (lib.rs:21-28)
    clock,        \* what SystemTime::now() returns at this moment
    screen_rect,  \* ctx.input(|i| i.screen_rect) for the current frame
    window_fill,  \* ctx.style().visuals.window_fill
    areas,        \* the areas the context knows, records keyed by id
    order,        \* layer stacking order, bottom first, top last
    painted,      \* what has been laid out and painted in the current frame
    op,           \* history: the operation that ran last
    last,         \* history: the most recent open/close call and the clock it read
    calls         \* history: the builder calls applied to new(), in order

vars == <<spinner, clock, screen_rect, window_fill, areas, order, painted, op, last, calls>>

host == <<screen_rect, window_fill, areas, order, painted>>

----------------------------------------------------------------------------
(* Bounds and value sets *)

MaxTime == 1
MaxCalls == 2

Times == 0..MaxTime

None == <<>>
Some(x) == <<x>>

DefaultFill == <<0, 0, 0, 120>>
DefaultId == "_modal_spinner"
InteractSizeY == 18

Colors == {DefaultFill, <<255, 0, 0, 255>>}
HostFills == {<<27, 27, 27, 255>>} \cup Colors
SpinnerIds == {DefaultId, "busy"}
OtherIds == {"window_a", "window_b"}
Sizes == {10, 40}
Rect(x0, y0, x1, y1) == [min |-> <<x0, y0>>, max |-> <<x1, y1>>]
ScreenRects == {Rect(0, 0, 800, 600), Rect(10, 20, 330, 260)}

left_top(r) == r.min
height(r) == r.max[2] - r.min[2]

----------------------------------------------------------------------------
(* SpinnerState and ModalSpinner *)

Closed == [tag |-> "Closed"]
Open(t) == [tag |-> "Open", at |-> t]

SpinnerDefault == [size |-> None, color |-> None]

New ==
    [state |-> Closed,
     id |-> DefaultId,
     fill_color |-> DefaultFill,
     spinner |-> SpinnerDefault,
     show_elapsed_time |-> FALSE]

id(self, v) == [self EXCEPT !.id = v]

fill_color(self, color) == [self EXCEPT !.fill_color = color]

spinner_size_reset(self, size) ==
    [self EXCEPT !.spinner = [size |-> Some(size), color |-> None]]

spinner_size(self, size) == [self EXCEPT !.spinner.size = Some(size)]

spinner_color(self, color) == [self EXCEPT !.spinner.color = Some(color)]

show_elapsed_time(self, show) == [self EXCEPT !.show_elapsed_time = show]

state(self) == self.state

Config(self) ==
    [id |-> self.id,
     fill_color |-> self.fill_color,
     spinner |-> self.spinner,
     show_elapsed_time |-> self.show_elapsed_time]

open_keep(self, now) ==
    IF self.state.tag = "Open" THEN self ELSE [self EXCEPT !.state = Open(now)]

open(self, now) == [self EXCEPT !.state = Open(now)]

close(self) == [self EXCEPT !.state = Closed]

----------------------------------------------------------------------------
(* update, split into its effect on each part of the host context *)

IsOpen_always(self) == TRUE

IsOpen(self) == self.state.tag = "Open"

\* egui::Area::show: the context keeps one area per id
ShowArea(as, a) == {x \in as : x.id # a.id} \cup {a}

\* a layer that is shown for the first time is pushed on top of the order
PushLayer(ord, l) ==
    IF \E i \in 1..Len(ord) : ord[i] = l THEN ord ELSE Append(ord, l)

\* ctx.move_to_top
move_to_top(ord, l) == Append(SelectSeq(ord, LAMBDA x : x # l), l)

Top(ord) == IF Len(ord) = 0 THEN None ELSE Some(ord[Len(ord)])

update_self_stores_size(self) ==
    [self EXCEPT !.spinner.size =
        IF self.spinner.size = None THEN Some(InteractSizeY) ELSE @]

update_self_closes(self) == [self EXCEPT !.state = Closed]

update_self(self) == self

update_window_fill_restored(self, wf) == wf

update_window_fill(self, wf) == self.fill_color

update_area_origin(self, rect) ==
    [id |-> self.id,
     interactable |-> TRUE,
     movable |-> FALSE,
     pos |-> <<0, 0>>,
     sense |-> "click"]

update_area(self, rect) ==
    [id |-> self.id,
     interactable |-> TRUE,
     movable |-> FALSE,
     pos |-> left_top(rect),
     sense |-> "click"]

spinner_h(self) ==
    IF self.spinner.size = None THEN InteractSizeY ELSE self.spinner.size[1]

\* Spinner::update: egui::Spinner with the overrides that are present
Spinner_update(sp) == [cmd |-> "spinner", size |-> sp.size, color |-> sp.color]

\* the closure given to Area::show, top-down: the dimming rectangle, the
\* space of height/2 - spinner_h/2 (kept doubled, so it stays an integer),
\* and the spinner glyph
update_shapes(self, rect) ==
    {[layer |-> self.id, z |-> 1,
      shape |-> [cmd |-> "rect_filled", rect |-> rect, rounding |-> 0,
                 color |-> self.fill_color]],
     [layer |-> self.id, z |-> 2,
      shape |-> [cmd |-> "add_space", twice |-> height(rect) - spinner_h(self)]],
     [layer |-> self.id, z |-> 3,
      shape |-> Spinner_update(self.spinner)]}

update_order_no_raise(self, ord) == PushLayer(ord, self.id)

update_order(self, ord) == move_to_top(PushLayer(ord, self.id), self.id)

----------------------------------------------------------------------------
(* Initial states *)

Configured ==
    {[state |-> Closed, id |-> i, fill_color |-> f,
      spinner |-> [size |-> s, color |-> c], show_elapsed_time |-> e] :
        i \in SpinnerIds, f \in Colors,
        s \in {None} \cup {Some(x) : x \in Sizes},
        c \in {None} \cup {Some(x) : x \in Colors},
        e \in BOOLEAN}

HostInit ==
    /\ clock = 0
    /\ screen_rect \in ScreenRects
    /\ window_fill \in HostFills \ Colors
    /\ areas = {}
    /\ order = <<>>
    /\ painted = {}
    /\ op = "new"
    /\ last = [call |-> "none", at |-> 0]
    /\ calls = <<>>

\* a spinner that has been constructed and configured
Init ==
    /\ spinner \in Configured
    /\ HostInit

\* a spinner fresh from new(), before any setter
InitBuild ==
    /\ spinner = New
    /\ HostInit

----------------------------------------------------------------------------
(* Operations of the ModalSpinner *)

DoOpen ==
    /\ spinner' = open(spinner, clock)
    /\ last' = [call |-> "open", at |-> clock]
    /\ op' = "open"
    /\ UNCHANGED <<clock, host, calls>>

DoClose ==
    /\ spinner' = close(spinner)
    /\ last' = [call |-> "close", at |-> 0]
    /\ op' = "close"
    /\ UNCHANGED <<clock, host, calls>>

Update ==
    /\ op' = "update"
    /\ IF ~IsOpen(spinner)
       THEN UNCHANGED <<spinner, host>>
       ELSE /\ spinner' = update_self(spinner)
            /\ window_fill' = update_window_fill(spinner, window_fill)
            /\ areas' = ShowArea(areas, update_area(spinner, screen_rect))
            /\ painted' = painted \cup update_shapes(spinner, screen_rect)
            /\ order' = update_order(spinner, order)
            /\ UNCHANGED screen_rect
    /\ UNCHANGED <<clock, last, calls>>

----------------------------------------------------------------------------
(* The host application and the clock *)

\* a new frame: a fresh input snapshot, nothing painted yet
BeginFrame(r) ==
    /\ screen_rect' = r
    /\ painted' = {}
    /\ op' = "begin_frame"
    /\ UNCHANGED <<spinner, clock, window_fill, areas, order, last, calls>>

\* the application shows another overlay, which may ask to be in front
HostShowArea(i, front) ==
    /\ areas' = ShowArea(areas, [id |-> i, interactable |-> TRUE, movable |-> TRUE,
                                 pos |-> <<0, 0>>, sense |-> "click_and_drag"])
    /\ order' = IF front THEN move_to_top(PushLayer(order, i), i)
                         ELSE PushLayer(order, i)
    /\ op' = "host_area"
    /\ UNCHANGED <<spinner, clock, screen_rect, window_fill, painted, last, calls>>

\* other code sets the shared window-fill style
HostSetStyle(c) ==
    /\ window_fill' = c
    /\ op' = "host_style"
    /\ UNCHANGED <<spinner, clock, screen_rect, areas, order, painted, last, calls>>

\* the wall clock moves (SystemTime may also be set back)
Tick(t) ==
    /\ t # clock
    /\ clock' = t
    /\ op' = "tick"
    /\ UNCHANGED <<spinner, host, last, calls>>

Next ==
    \/ DoOpen
    \/ DoClose
    \/ Update
    \/ \E r \in ScreenRects : BeginFrame(r)
    \/ \E i \in OtherIds, front \in BOOLEAN : HostShowArea(i, front)
    \/ \E c \in HostFills : HostSetStyle(c)
    \/ \E t \in Times : Tick(t)

Spec == Init /\ [][Next]_vars

----------------------------------------------------------------------------
(* The builder chain *)

Apply(self, c) ==
    CASE c.setter = "id" -> id(self, c.arg)
      [] c.setter = "fill_color" -> fill_color(self, c.arg)
      [] c.setter = "spinner_size" -> spinner_size(self, c.arg)
      [] c.setter = "spinner_color" -> spinner_color(self, c.arg)
      [] c.setter = "show_elapsed_time" -> show_elapsed_time(self, c.arg)

RECURSIVE ApplySeq(_, _)
ApplySeq(self, cs) ==
    IF cs = <<>> THEN self ELSE ApplySeq(Apply(self, Head(cs)), Tail(cs))

\* the builder call is appended to the log of the chain
Call(name, arg) ==
    /\ calls' = Append(calls, [setter |-> name, arg |-> arg])
    /\ op' = name
    /\ UNCHANGED <<clock, host, last>>

SetId(v) ==
    /\ Len(calls) < MaxCalls
    /\ spinner' = id(spinner, v)
    /\ Call("id", v)

SetFillColor(c) ==
    /\ Len(calls) < MaxCalls
    /\ spinner' = fill_color(spinner, c)
    /\ Call("fill_color", c)

SetSpinnerSize(s) ==
    /\ Len(calls) < MaxCalls
    /\ spinner' = spinner_size(spinner, s)
    /\ Call("spinner_size", s)

SetSpinnerColor(c) ==
    /\ Len(calls) < MaxCalls
    /\ spinner' = spinner_color(spinner, c)
    /\ Call("spinner_color", c)

SetShowElapsedTime(b) ==
    /\ Len(calls) < MaxCalls
    /\ spinner' = show_elapsed_time(spinner, b)
    /\ Call("show_elapsed_time", b)

NextBuild ==
    \/ \E v \in SpinnerIds : SetId(v)
    \/ \E c \in Colors : SetFillColor(c)
    \/ \E s \in Sizes : SetSpinnerSize(s)
    \/ \E c \in Colors : SetSpinnerColor(c)
    \/ \E b \in BOOLEAN : SetShowElapsedTime(b)

SpecBuild == InitBuild /\ [][NextBuild]_vars

----------------------------------------------------------------------------
(* Properties *)

Shown(self, as) == {a \in as : a.id = self.id}

Dimming(self, ps) ==
    {p.shape : p \in {q \in ps : q.layer = self.id /\ q.shape.cmd = "rect_filled"}}

\* C1: state() is the effect of the most recent open/close call: Open(t) with
\* t the clock read by that open() if it was open() (a repeated open()
\* replaces the timestamp), Closed after close(), Closed before any call;
\* update() calls in between do not matter.
ThmC1 ==
    /\ last.call = "open" => state(spinner) = Open(last.at)
    /\ last.call = "close" => state(spinner) = Closed
    /\ last.call = "none" => state(spinner) = Closed

\* an open() at a later clock value, after the overlay had already been shown
WitC1 ==
    /\ op = "open"
    /\ last.at = MaxTime
    /\ state(spinner) = Open(MaxTime)
    /\ Shown(spinner, areas) # {}

\* C2: update() while the state is Closed leaves the host context alone: no
\* area is created, nothing is painted, the window-fill style and the
\* stacking order stay as they were.
ThmC2 ==
    [][(op' = "update" /\ spinner.state = Closed) => UNCHANGED host]_vars

\* update() has run on a closed spinner and the host shows no trace of it
WitC2 ==
    /\ op = "update"
    /\ spinner.state = Closed
    /\ Shown(spinner, areas) = {}
    /\ painted = {}
    /\ window_fill # spinner.fill_color
    /\ Len(order) = Cardinality(OtherIds)

ThmC4 ==
    (op = "update" /\ spinner.state.tag = "Open") =>
        /\ Cardinality(Shown(spinner, areas)) = 1
        /\ \A a \in Shown(spinner, areas) :
              /\ a.pos = left_top(screen_rect)
              /\ a.sense = "click"
              /\ ~a.movable
        /\ Dimming(spinner, painted) =
              {[cmd |-> "rect_filled", rect |-> screen_rect, rounding |-> 0,
                color |-> spinner.fill_color]}

\* the overlay drawn on a screen whose top-left corner is not the origin,
\* next to the other overlays
WitC4 ==
    /\ op = "update"
    /\ spinner.state.tag = "Open"
    /\ left_top(screen_rect) # <<0, 0>>
    /\ Cardinality(areas) = Cardinality(OtherIds) + 1
    /\ \E a \in areas : a.id = spinner.id /\ a.pos = left_top(screen_rect)

\* C5: with show_elapsed_time(true) and the state Open(t0), an update() at a
\* clock value t1 > t0 lays out, below the spinner glyph (z = 3), a readout
\* of the elapsed time t1 - t0.
CexC5 ==
    (/\ op = "update"
     /\ spinner.state.tag = "Open"
     /\ spinner.show_elapsed_time
     /\ clock > spinner.state.at) =>
        \E p \in painted :
            /\ p.layer = spinner.id
            /\ p.z > 3
            /\ p.shape.cmd = "elapsed"
            /\ p.shape.value = clock - spinner.state.at

\* C6: update() never changes the state; while the most recent open/close
\* call is open() every update() draws the overlay, and while it is close()
\* (or there was none) every update() leaves the host context alone.
ThmC6 ==
    [][op' = "update" =>
          /\ spinner'.state = spinner.state
          /\ last.call = "open" =>
                /\ Shown(spinner, areas') # {}
                /\ update_shapes(spinner, screen_rect) \subseteq painted'
                /\ Top(order') = Some(spinner.id)
          /\ last.call # "open" => UNCHANGED host]_vars

\* after close(), in a new frame, update() has run and painted nothing,
\* although the overlay had been shown before
WitC6 ==
    /\ op = "update"
    /\ last.call = "close"
    /\ painted = {}
    /\ Shown(spinner, areas) # {}

\* C7: two neighbouring builder calls of different setters can be swapped
\* without changing the value built, and a setter changes no field but its
\* own.
Swap(cs, i) == [cs EXCEPT ![i] = cs[i + 1], ![i + 1] = cs[i]]

OwnField(c) == IF c.setter \in {"spinner_size", "spinner_color"} THEN "spinner" ELSE c.setter

ThmC7 ==
    /\ \A i \in 1..(Len(calls) - 1) :
          calls[i].setter # calls[i + 1].setter =>
              ApplySeq(New, Swap(calls, i)) = spinner
    /\ Len(calls) > 0 =>
          LET c == calls[Len(calls)]
              before == ApplySeq(New, SubSeq(calls, 1, Len(calls) - 1))
          IN /\ \A f \in (DOMAIN spinner) \ {OwnField(c)} : spinner[f] = before[f]
             /\ c.setter = "spinner_size" => spinner.spinner.color = before.spinner.color
             /\ c.setter = "spinner_color" => spinner.spinner.size = before.spinner.size

\* new().spinner_color(C).spinner_size(10)
WitC7 ==
    /\ Len(calls) >= 2
    /\ calls[1].setter = "spinner_color"
    /\ calls[2] = [setter |-> "spinner_size", arg |-> 10]
    /\ spinner.spinner = [size |-> Some(10), color |-> Some(calls[1].arg)]

\* C9: update() in state Open sets the shared window-fill style to
\* fill_color, and no later step of the spinner or of the frame loop puts
\* the earlier value back: the style keeps that value until other code sets
\* the style.
ThmC9 ==
    [][/\ (op' = "update" /\ spinner.state.tag = "Open") =>
              window_fill' = spinner.fill_color
       /\ (window_fill = spinner.fill_color /\ op' # "host_style") =>
              window_fill' = spinner'.fill_color]_vars

\* a new frame after close(): the style still carries the spinner's fill
WitC9 ==
    /\ op = "begin_frame"
    /\ last.call = "close"
    /\ Shown(spinner, areas) # {}
    /\ window_fill = spinner.fill_color

\* C10: open(), close() and update() keep the configuration fields; update()
\* changes no field of the ModalSpinner at all.
ThmC10 ==
    [][/\ op' \in {"open", "close", "update"} => Config(spinner') = Config(spinner)
       /\ op' = "update" => spinner' = spinner]_vars

\* a configured spinner, opened and drawn, with its configuration intact
WitC10 ==
    /\ op = "update"
    /\ spinner.state.tag = "Open"
    /\ spinner.id # DefaultId
    /\ spinner.spinner.size = None
    /\ spinner.show_elapsed_time
    /\ Shown(spinner, areas) # {}

====
